---- MODULE Spec2Model ----
(***************************************************************************)
(* Model of static/script.js: the dashboard client of the machine fault    *)
(* detector.  One action is one run-to-completion step of the page's event *)
(* loop: the load listener, a click on the predict button (onPredict up to *)
(* its first await), and the resumption of onPredict / loadLogsChart after *)
(* each of their two awaits (fetch, res.json).                             *)
(*                                                                         *)
(* Representation.  A JavaScript value is a record [t, n, s]: t is its     *)
(* type tag, n its number, s its string.  Numbers of the form are          *)
(* integers; a probability is carried in thousandths (420 is 0.42).  The   *)
(* text of an input field is a sequence of one-character strings, so that  *)
(* Number(...) can be computed on it; texts the page only displays are     *)
(* TLA+ strings.                                                           *)
(***************************************************************************)
EXTENDS Integers, Sequences, FiniteSets, TLC

\* How many clicks on the predict button a behaviour holds.
MaxClicks == 2

\* The same, where every form is tried.
MaxFormClicks == 1

\* The same, where every answer to POST /predict is tried.
MaxBodyClicks == 2

\* The same, where every answer to GET /logs is tried.
MaxLogClicks == 1

----------------------------------------------------------------------------
(* JavaScript values *)

Undefined == [t |-> "undefined", n |-> 0, s |-> ""]
NaN == [t |-> "nan", n |-> 0, s |-> ""]
Num(i) == [t |-> "number", n |-> i, s |-> ""]
Str(x) == [t |-> "string", n |-> 0, s |-> x]

\* ToBoolean: undefined, NaN, 0 and "" are falsy.
Truthy(v) ==
  CASE v.t = "undefined" -> FALSE
    [] v.t = "nan" -> FALSE
    [] v.t = "number" -> v.n # 0
    [] v.t = "string" -> v.s # ""

\* a < b on numbers: false as soon as one side is NaN.
Less(a, b) == a.t = "number" /\ b.t = "number" /\ a.n < b.n

\* Math.round of the rational num/den (den > 0): floor(x + 1/2).
MathRound(num, den) == (2 * num + den) \div (2 * den)

DigitChar(d) ==
  CASE d = 0 -> "0" [] d = 1 -> "1" [] d = 2 -> "2" [] d = 3 -> "3"
    [] d = 4 -> "4" [] d = 5 -> "5" [] d = 6 -> "6" [] d = 7 -> "7"
    [] d = 8 -> "8" [] d = 9 -> "9"

RECURSIVE NatToString(_)
NatToString(i) ==
  IF i < 10 THEN DigitChar(i) ELSE NatToString(i \div 10) \o DigitChar(i % 10)

\* ToString of a number, as string concatenation (x + "%") applies it.
NumberToString(v) ==
  IF v.t = "nan" THEN "NaN"
  ELSE IF v.n < 0 THEN "-" \o NatToString(-v.n) ELSE NatToString(v.n)

----------------------------------------------------------------------------
(* Number(text): StringToNumber on the characters a field can hold here:   *)
(* digits, a sign, blanks and letters.                                     *)

IsBlank(c) == c = " "
IsDigit(c) == c \in {"0", "1", "2", "3", "4", "5", "6", "7", "8", "9"}
DigitValue(c) ==
  CASE c = "0" -> 0 [] c = "1" -> 1 [] c = "2" -> 2 [] c = "3" -> 3
    [] c = "4" -> 4 [] c = "5" -> 5 [] c = "6" -> 6 [] c = "7" -> 7
    [] c = "8" -> 8 [] c = "9" -> 9

RECURSIVE TrimLeft(_)
TrimLeft(cs) ==
  IF cs # <<>> /\ IsBlank(Head(cs)) THEN TrimLeft(Tail(cs)) ELSE cs

RECURSIVE TrimRight(_)
TrimRight(cs) ==
  IF cs # <<>> /\ IsBlank(cs[Len(cs)])
  THEN TrimRight(SubSeq(cs, 1, Len(cs) - 1)) ELSE cs

RECURSIVE DigitsValue(_)
DigitsValue(cs) ==
  IF cs = <<>> THEN 0
  ELSE 10 * DigitsValue(SubSeq(cs, 1, Len(cs) - 1)) + DigitValue(cs[Len(cs)])

AllDigits(cs) == cs # <<>> /\ \A i \in 1..Len(cs) : IsDigit(cs[i])

NumberOf(text) ==
  LET cs == TrimRight(TrimLeft(text)) IN
  IF cs = <<>> THEN Num(0)
  ELSE IF Head(cs) \in {"-", "+"}
       THEN IF AllDigits(Tail(cs))
            THEN Num((IF Head(cs) = "-" THEN -1 ELSE 1) * DigitsValue(Tail(cs)))
            ELSE NaN
       ELSE IF AllDigits(cs) THEN Num(DigitsValue(cs)) ELSE NaN

----------------------------------------------------------------------------
(* The range table and the form *)

ranges ==
  [temp |-> <<25, 45>>, pressure |-> <<3, 5>>, flow |-> <<140, 180>>,
   vibration |-> <<0, 1>>, fillheight |-> <<245, 255>>, power |-> <<3, 5>>,
   co2 |-> <<380, 450>>, humidity |-> <<45, 60>>]

\* Object.keys(ranges): the keys in insertion order.
RangeKeys ==
  <<"temp", "pressure", "flow", "vibration", "fillheight", "power", "co2",
    "humidity">>

\* The field ids onPredict walks.
ids ==
  <<"temp", "pressure", "flow", "vibration", "fillheight", "power", "co2",
    "humidity">>

IdSet == {ids[i] : i \in 1..Len(ids)}

BorderReset == "1px solid #ccc"
BorderError == "2px solid red"
ColorRed == "#e63946"
ColorGreen == "#29c37a"

----------------------------------------------------------------------------
(* The pieces of onPredict, updateBarChart and loadLogsChart *)

\* A variant that stops marking at the first empty field.
ValidatedBordersFirstOnly(f) ==
  [k \in IdSet |->
     LET i == CHOOSE j \in 1..Len(ids) : ids[j] = k IN
     IF f[k] = <<>> /\ \A j \in 1..(i - 1) : f[ids[j]] # <<>>
     THEN BorderError ELSE BorderReset]

\* Lines 127-136: every border is reset, then every empty field is marked.
ValidatedBorders(f) ==
  [k \in IdSet |-> IF f[k] = <<>> THEN BorderError ELSE BorderReset]

\* A variant that also refuses a value Number() makes NaN.
AllFilledNumeric(f) ==
  \A i \in 1..Len(ids) : f[ids[i]] # <<>> /\ NumberOf(f[ids[i]]).t = "number"

\* allFilled after the empty check: no field had a falsy (empty) value.
AllFilled(f) == \A i \in 1..Len(ids) : f[ids[i]] # <<>>

\* The payload: Number(value) of every field.
PayloadOf(f) == [k \in IdSet |-> NumberOf(f[k])]

\* A variant with the bounds themselves out of range (<=, >=).
BarColorExclusive(v, range) ==
  IF ~Less(Num(range[1]), v) \/ ~Less(v, Num(range[2]))
  THEN ColorRed ELSE ColorGreen

\* (v < min || v > max) ? red : green
BarColor(v, range) ==
  IF Less(v, Num(range[1])) \/ Less(Num(range[2]), v)
  THEN ColorRed ELSE ColorGreen

BarColorsOf(values) ==
  [i \in 1..Len(RangeKeys) |-> BarColor(values[RangeKeys[i]], ranges[RangeKeys[i]])]

BarDataOf(values) == [i \in 1..Len(RangeKeys) |-> values[RangeKeys[i]]]

\* Math.round(x * 100) of a probability carried in thousandths; a value that
\* is no number gives NaN.
RoundPercent(v) ==
  IF v.t = "number" THEN Num(MathRound(v.n * 100, 1000)) ELSE NaN

\* A variant with Math.floor in place of Math.round.
PercentOfTruncated(probability) ==
  IF Truthy(probability) THEN Num((probability.n * 100) \div 1000) ELSE Num(0)

\* Math.round((data.probability || 0) * 100)
PercentOf(probability) ==
  RoundPercent(IF Truthy(probability) THEN probability ELSE Num(0))

\* [100 - probPercent, probPercent]
DonutOf(p) ==
  <<IF p.t = "number" THEN Num(100 - p.n) ELSE NaN, p>>

\* probPercent + "%"
CenterOf(p) == NumberToString(p) \o "%"

\* The text an element shows once innerText is assigned v.
InnerTextOf(v) ==
  CASE v.t = "string" -> v.s
    [] v.t = "undefined" -> "undefined"
    [] OTHER -> NumberToString(v)

\* A variant that leaves out the entries without a probability.
LineDataOfFiltered(entries) ==
  LET HasProbability(e) == e.probability.t = "number"
      kept == SelectSeq(entries, HasProbability)
  IN [i \in 1..Len(kept) |-> RoundPercent(kept[i].probability)]

\* logs.map(l => l.timestamp) and logs.map(l => Math.round(l.probability * 100))
LineLabelsOf(entries) == [i \in 1..Len(entries) |-> entries[i].timestamp]
LineDataOf(entries) == [i \in 1..Len(entries) |-> RoundPercent(entries[i].probability)]

\* Reading a property of a list entry throws exactly when the entry is null.
MapThrows(entries) == \E i \in 1..Len(entries) : entries[i].isNull

----------------------------------------------------------------------------
(* The inputs: what the user may have typed, what the server may answer *)

RECURSIVE NatText(_)
NatText(i) ==
  IF i < 10 THEN <<DigitChar(i)>>
  ELSE Append(NatText(i \div 10), DigitChar(i % 10))

\* The decimal text a user types for the integer i.
TextOf(i) == IF i < 0 THEN <<"-">> \o NatText(-i) ELSE NatText(i)

\* What a field may hold, relative to the range [min, max] of its key.
SampleText(range, kind) ==
  CASE kind = "empty" -> <<>>
    [] kind = "below" -> TextOf(range[1] - 1)
    [] kind = "min" -> TextOf(range[1])
    [] kind = "mid" -> TextOf((range[1] + range[2]) \div 2)
    [] kind = "max" -> TextOf(range[2])
    [] kind = "above" -> TextOf(range[2] + 1)
    [] kind = "word" -> <<"a", "b", "c">>
    [] kind = "blank" -> <<" ">>
    [] kind = "padded" -> <<" ">> \o TextOf(range[2]) \o <<" ">>

FilledKinds ==
  <<"below", "min", "mid", "max", "above", "word", "blank", "padded">>

\* The form whose i-th field holds the kind i + r of FilledKinds, cyclically.
RotatedForm(r) ==
  [k \in IdSet |->
     LET i == CHOOSE j \in 1..Len(ids) : ids[j] = k IN
     SampleText(ranges[k], FilledKinds[((i + r) % Len(FilledKinds)) + 1])]

\* f with the fields at the positions of `at` emptied.
Emptied(f, at) ==
  [k \in IdSet |->
     IF (CHOOSE j \in 1..Len(ids) : ids[j] = k) \in at THEN <<>> ELSE f[k]]

FilledForms == {RotatedForm(r) : r \in 0..(Len(FilledKinds) - 1)}

EmptyPositions ==
  {1..Len(ids), {1}, {Len(ids)}, {i \in 1..Len(ids) : i % 2 = 0}, {3, 4, 5}}

\* Every field inside its range.
MidForm == [k \in IdSet |-> SampleText(ranges[k], "mid")]

Forms == FilledForms \cup {MidForm} \cup {Emptied(RotatedForm(0), at) : at \in EmptyPositions}

FewForms == {RotatedForm(0), RotatedForm(3), Emptied(RotatedForm(0), {3, 4, 5})}

\* A body of POST /predict: parsed says whether res.json() produced a value,
\* isNull whether that value is null; the rest are the object's properties.
PredictBody(parsed, isNull, error, probability, code, description) ==
  [parsed |-> parsed, isNull |-> isNull, error |-> error,
   probability |-> probability, error_code |-> code,
   error_description |-> description]

NoBody == PredictBody(FALSE, FALSE, Undefined, Undefined, Undefined, Undefined)

PredictBodies ==
  { NoBody,
    PredictBody(TRUE, TRUE, Undefined, Undefined, Undefined, Undefined),
    PredictBody(TRUE, FALSE, Str("model unavailable"), Undefined, Undefined, Undefined),
    PredictBody(TRUE, FALSE, Str("overloaded"), Num(900), Str("E9"), Str("Shutdown")),
    PredictBody(TRUE, FALSE, Undefined, Num(420), Str("E1"), Str("Overheat")),
    PredictBody(TRUE, FALSE, Str(""), Num(1000), Str("E2"), Str("Jam")),
    PredictBody(TRUE, FALSE, Undefined, Num(5), Str("E3"), Str("Leak")),
    PredictBody(TRUE, FALSE, Undefined, Undefined, Str("E0"), Str("None")),
    PredictBody(TRUE, FALSE, Undefined, Num(1500), Str("E4"), Str("Surge")) }

FewPredictBodies ==
  { NoBody,
    PredictBody(TRUE, FALSE, Str("model unavailable"), Undefined, Undefined, Undefined),
    PredictBody(TRUE, FALSE, Undefined, Num(420), Str("E1"), Str("Overheat")),
    PredictBody(TRUE, FALSE, Undefined, Num(5), Str("E3"), Str("Leak")) }

LogEntry(timestamp, probability) ==
  [isNull |-> FALSE, timestamp |-> timestamp, probability |-> probability]

NullEntry == [isNull |-> TRUE, timestamp |-> Undefined, probability |-> Undefined]

\* A body of GET /logs: parsed as above, isArray whether the value has map.
LogsBody(parsed, isArray, entries) ==
  [parsed |-> parsed, isArray |-> isArray, entries |-> entries]

NoLogs == LogsBody(FALSE, FALSE, <<>>)

LogsBodies ==
  { NoLogs,
    LogsBody(TRUE, FALSE, <<>>),
    LogsBody(TRUE, TRUE, <<>>),
    LogsBody(TRUE, TRUE, <<LogEntry(Str("t1"), Num(100)), LogEntry(Str("t2"), Num(500))>>),
    LogsBody(TRUE, TRUE, <<LogEntry(Str("t1"), Num(100)), NullEntry>>),
    LogsBody(TRUE, TRUE,
             <<LogEntry(Str("t3"), Num(425)), LogEntry(Str("t4"), Undefined),
               LogEntry(Str("t5"), Num(1000))>>) }

FewLogsBodies ==
  { NoLogs,
    LogsBody(TRUE, TRUE, <<LogEntry(Str("t1"), Num(100)), LogEntry(Str("t2"), Num(500))>>),
    LogsBody(TRUE, TRUE, <<LogEntry(Str("t3"), Num(425))>>) }

----------------------------------------------------------------------------
(* Requests and what becomes of their responses *)

\* JSON.stringify of the payload: NaN is written as null.
StringifyPayload(payload) ==
  [k \in IdSet |->
     IF payload[k].t = "nan" THEN "null" ELSE NumberToString(payload[k])]

\* A variant that drops a submission made while another is in flight.
IssuePredictSingleFlight(reqs, payload) ==
  IF \E i \in 1..Len(reqs) : reqs[i].pc # "done" THEN reqs
  ELSE Append(reqs, [payload |-> payload, json |-> StringifyPayload(payload),
                     pc |-> "fetch", outcome |-> "pending"])

\* fetch("/predict", ...): one more request in flight, whatever is pending.
\* The invocation keeps its payload for the time the response arrives.
IssuePredict(reqs, payload) ==
  Append(reqs, [payload |-> payload, json |-> StringifyPayload(payload),
                pc |-> "fetch", outcome |-> "pending"])

\* fetch("/logs"), at line 206
IssueLogs(reqs) == Append(reqs, [pc |-> "fetch", outcome |-> "pending"])

\* A variant that refreshes the logs whatever became of the response.
LogsAfterPredictAlways(reqs, outcome) == IssueLogs(reqs)

\* loadLogsChart() is the last statement of the path that updates the charts.
LogsAfterPredict(reqs, outcome) ==
  IF outcome = "applied" THEN IssueLogs(reqs) ELSE reqs

\* A variant that does not look at data.error.
PredictOutcomeErrorIgnored(body, chartsReady) ==
  IF ~body.parsed \/ body.isNull \/ ~chartsReady THEN "commError" ELSE "applied"

\* What onPredict does with a body: a body that did not parse and a null
\* body throw into the catch, as does the use of donutChart before the load
\* listener has set it; a truthy data.error returns early.
PredictOutcome(body, chartsReady) ==
  IF ~body.parsed \/ body.isNull THEN "commError"
  ELSE IF Truthy(body.error) THEN "serverError"
  ELSE IF ~chartsReady THEN "commError"
  ELSE "applied"

\* A variant that takes a body without map for an empty list.
LogsOutcomeLenient(body) ==
  IF ~body.parsed \/ MapThrows(body.entries) THEN "failed" ELSE "applied"

\* What loadLogsChart does with a body: anything that throws before line 209
\* assigns goes to the catch.
LogsOutcome(body) ==
  IF ~body.parsed \/ ~body.isArray \/ MapThrows(body.entries)
  THEN "failed" ELSE "applied"

\* A variant where the payload is one binding shared by all invocations.
PayloadShownLatest(reqs, i) == reqs[Len(reqs)].payload

\* The payload the resumed invocation i passes to updateBarChart.
PayloadShown(reqs, i) == reqs[i].payload

\* The err of the catch clause, as "Communication Error: " + err shows it.
ErrorText(body) ==
  IF ~body.parsed THEN "SyntaxError: Unexpected token"
  ELSE IF body.isNull THEN "TypeError: Cannot read properties of null"
  ELSE "TypeError: Cannot read properties of undefined"

FetchErrorText == "TypeError: Failed to fetch"
\* The warning of line 139 (its leading sign left out).
FillAlert == "Please fill all fields."

\* What the page's markup shows in donutCenter, errCode and errDesc.
MarkupText == "--"

----------------------------------------------------------------------------
VARIABLES
  loaded,       \* the load listener has run: the three charts exist
  fields,       \* value of every input at the last click
  borders,      \* style.border of every input
  donut,        \* donutChart.data.datasets[0].data
  donutCenter,  \* innerText of donutCenter
  errCode,      \* innerText of errCode
  errDesc,      \* innerText of errDesc
  barLabels,    \* barChart.data.labels
  barData,      \* barChart.data.datasets[0].data
  barColors,    \* barChart.data.datasets[0].backgroundColor
  lineLabels,   \* logsChart.data.labels
  lineData,     \* logsChart.data.datasets[0].data
  predicts,     \* the invocations of onPredict that reached fetch, by order
  logs,         \* the invocations of loadLogsChart, by order
  nClicks,      \* clicks on the predict button
  nAlerts,      \* alert() calls
  lastAlert,    \* the text of the last alert()
  nConsole,     \* console.log calls
  shown,        \* the /predict exchange applied last
  lineShown     \* the /logs exchange applied last

charts ==
  <<donut, donutCenter, errCode, errDesc, barLabels, barData, barColors,
    lineLabels, lineData>>

vars ==
  <<loaded, fields, borders, donut, donutCenter, errCode, errDesc,
    barLabels, barData, barColors, lineLabels, lineData, predicts, logs,
    nClicks, nAlerts, lastAlert, nConsole, shown, lineShown>>

Init ==
  /\ loaded = FALSE
  /\ fields = [k \in IdSet |-> <<>>]
  /\ borders = [k \in IdSet |-> ""]
  /\ donut = <<>>
  /\ donutCenter = MarkupText
  /\ errCode = MarkupText
  /\ errDesc = MarkupText
  /\ barLabels = <<>>
  /\ barData = <<>>
  /\ barColors = <<>>
  /\ lineLabels = <<>>
  /\ lineData = <<>>
  /\ predicts = <<>>
  /\ logs = <<>>
  /\ nClicks = 0
  /\ nAlerts = 0
  /\ lastAlert = ""
  /\ nConsole = 0
  /\ shown = [id |-> 0, body |-> NoBody]
  /\ lineShown = [id |-> 0, logs |-> NoLogs]

Alert(text) == nAlerts' = nAlerts + 1 /\ lastAlert' = text

\* The load listener: the three charts, the center text, then loadLogsChart().
Load ==
  /\ ~loaded
  /\ loaded' = TRUE
  /\ lineLabels' = <<>>
  /\ lineData' = <<>>
  /\ donut' = <<Num(100), Num(0)>>
  /\ donutCenter' = "0%"
  /\ barLabels' = RangeKeys
  /\ barData' = [i \in 1..Len(RangeKeys) |-> Num(0)]
  /\ barColors' = [i \in 1..Len(RangeKeys) |-> ColorGreen]
  /\ logs' = IssueLogs(logs)
  /\ UNCHANGED <<fields, borders, errCode, errDesc, predicts, nClicks,
                 nAlerts, lastAlert, nConsole, shown, lineShown>>

\* A click on the predict button, the form holding f: onPredict to its
\* return at line 140 or to its first await at line 148.
Click(f, maxClicks) ==
  /\ nClicks < maxClicks
  /\ nClicks' = nClicks + 1
  /\ fields' = f
  /\ borders' = ValidatedBorders(f)
  /\ IF AllFilled(f)
     THEN /\ predicts' = IssuePredict(predicts, PayloadOf(f))
          /\ UNCHANGED <<nAlerts, lastAlert>>
     ELSE /\ Alert(FillAlert)
          /\ UNCHANGED predicts
  /\ UNCHANGED <<loaded, charts, logs, nConsole, shown, lineShown>>

\* The fetch of invocation i settles: resolved (ok), or rejected into the catch.
PredictFetched(i, ok) ==
  /\ predicts[i].pc = "fetch"
  /\ IF ok
     THEN /\ predicts' = [predicts EXCEPT ![i].pc = "json"]
          /\ UNCHANGED <<nAlerts, lastAlert>>
     ELSE /\ predicts' = [predicts EXCEPT ![i].pc = "done", ![i].outcome = "commError"]
          /\ Alert("Communication Error: " \o FetchErrorText)
  /\ UNCHANGED <<loaded, fields, borders, charts, logs, nClicks,
                 nConsole, shown, lineShown>>

\* res.json() of invocation i settles with body: lines 154-179.
PredictParsed(i, body) ==
  LET outcome == PredictOutcome(body, loaded)
      probPercent == PercentOf(body.probability)
      payload == PayloadShown(predicts, i)
  IN
  /\ predicts[i].pc = "json"
  /\ predicts' = [predicts EXCEPT ![i].pc = "done", ![i].outcome = outcome]
  /\ CASE outcome = "applied" ->
            /\ donut' = DonutOf(probPercent)
            /\ donutCenter' = CenterOf(probPercent)
            /\ errCode' = InnerTextOf(body.error_code)
            /\ errDesc' = InnerTextOf(body.error_description)
            /\ barData' = BarDataOf(payload)
            /\ barColors' = BarColorsOf(payload)
            /\ shown' = [id |-> i, body |-> body]
            /\ UNCHANGED <<barLabels, lineLabels, lineData, nAlerts, lastAlert>>
       [] outcome = "serverError" ->
            /\ Alert("Server Error: " \o InnerTextOf(body.error))
            /\ UNCHANGED <<charts, shown>>
       [] outcome = "commError" ->
            /\ Alert("Communication Error: " \o ErrorText(body))
            /\ UNCHANGED <<charts, shown>>
  /\ logs' = LogsAfterPredict(logs, outcome)
  /\ UNCHANGED <<loaded, fields, borders, nClicks, nConsole, lineShown>>

\* The fetch of loadLogsChart invocation j settles.
LogsFetched(j, ok) ==
  /\ logs[j].pc = "fetch"
  /\ IF ok
     THEN /\ logs' = [logs EXCEPT ![j].pc = "json"]
          /\ UNCHANGED nConsole
     ELSE /\ logs' = [logs EXCEPT ![j].pc = "done", ![j].outcome = "failed"]
          /\ nConsole' = nConsole + 1
  /\ UNCHANGED <<loaded, fields, borders, charts, predicts, nClicks,
                 nAlerts, lastAlert, shown, lineShown>>

\* res.json() of loadLogsChart invocation j settles with body: lines 207-216.
LogsParsed(j, body) ==
  LET outcome == LogsOutcome(body) IN
  /\ logs[j].pc = "json"
  /\ logs' = [logs EXCEPT ![j].pc = "done", ![j].outcome = outcome]
  /\ IF outcome = "applied"
     THEN /\ lineLabels' = LineLabelsOf(body.entries)
          /\ lineData' = LineDataOf(body.entries)
          /\ lineShown' = [id |-> j, logs |-> body]
          /\ UNCHANGED nConsole
     ELSE /\ nConsole' = nConsole + 1
          /\ UNCHANGED <<lineLabels, lineData, lineShown>>
  /\ UNCHANGED <<loaded, fields, borders, donut, donutCenter, errCode,
                 errDesc, barLabels, barData, barColors, predicts, nClicks,
                 nAlerts, lastAlert, shown>>

\* One step of the event loop, the form, the /predict bodies and the /logs
\* bodies drawn from F, PB and LB.
NextOver(F, PB, LB, maxClicks) ==
  \/ Load
  \/ \E f \in F : Click(f, maxClicks)
  \/ \E i \in 1..Len(predicts), ok \in BOOLEAN : PredictFetched(i, ok)
  \/ \E i \in 1..Len(predicts), body \in PB : PredictParsed(i, body)
  \/ \E j \in 1..Len(logs), ok \in BOOLEAN : LogsFetched(j, ok)
  \/ \E j \in 1..Len(logs), body \in LB : LogsParsed(j, body)

\* Overlapping submissions: a few forms, a few answers of the server.
Next == NextOver(FewForms, FewPredictBodies, FewLogsBodies, MaxClicks)

Spec == Init /\ [][Next]_vars

\* Every form.
NextForms == NextOver(Forms, FewPredictBodies, FewLogsBodies, MaxFormClicks)

SpecForms == Init /\ [][NextForms]_vars

\* Every answer to POST /predict.
NextBodies == NextOver({RotatedForm(0)}, PredictBodies, FewLogsBodies, MaxBodyClicks)

SpecBodies == Init /\ [][NextBodies]_vars

\* Every answer to GET /logs.
NextLogs == NextOver(FewForms, FewPredictBodies, LogsBodies, MaxLogClicks)

SpecLogs == Init /\ [][NextLogs]_vars

----------------------------------------------------------------------------
(* Properties.  Steps are told apart by what they change: a click raises   *)
(* nClicks, the form it read is fields'; the load listener sets loaded; a  *)
(* settled await moves the pc of its invocation.                           *)

ClickStep == nClicks' = nClicks + 1

\* p is x rounded to the nearest integer, halves up, for x = pm / 10.
NearestPercent(pm, p) == 10 * p - 5 <= pm /\ pm < 10 * p + 5

\* v is the rounded integer percent of a probability in thousandths.
IsRounded(v, probability) ==
  v.t = "number" /\ probability.t = "number" /\ NearestPercent(probability.n, v.n)

InRange(v, range) == v.t = "number" /\ range[1] <= v.n /\ v.n <= range[2]
OutOfRange(v, range) == v.t = "number" /\ (v.n < range[1] \/ v.n > range[2])

CommunicationAlerts ==
  {"Communication Error: TypeError: Failed to fetch",
   "Communication Error: SyntaxError: Unexpected token",
   "Communication Error: TypeError: Cannot read properties of null",
   "Communication Error: TypeError: Cannot read properties of undefined"}

\* C1: a click that finds a field empty issues no request (no POST /predict,
\* no GET /logs), leaves every empty field with the error border and every
\* other field with the reset border, and shows the warning.
C1_EmptyFieldBlocksSubmission ==
  [][(ClickStep /\ \E k \in IdSet : fields'[k] = <<>>) =>
       /\ predicts' = predicts
       /\ logs' = logs
       /\ \A k \in IdSet :
            borders'[k] = IF fields'[k] = <<>> THEN BorderError ELSE BorderReset
       /\ nAlerts' = nAlerts + 1
       /\ lastAlert' = FillAlert]_vars

C1_Witness ==
  /\ nClicks = 1
  /\ lastAlert = FillAlert
  /\ predicts = <<>>
  /\ Cardinality({k \in IdSet : fields[k] = <<>> /\ borders[k] = BorderError}) = 3
  /\ Cardinality({k \in IdSet : fields[k] # <<>> /\ borders[k] = BorderReset}) = 5

\* C2: a /predict body with a truthy error leaves the donut, its center
\* label, the error texts, the bar chart and the line chart as they were,
\* alerts the error, and issues no GET /logs.
C2_ErrorResponseChangesNothing ==
  [][\A i \in 1..Len(predicts), body \in PredictBodies :
       (PredictParsed(i, body) /\ body.parsed /\ ~body.isNull
          /\ body.error.t = "string" /\ body.error.s # "") =>
         /\ UNCHANGED charts
         /\ logs' = logs
         /\ nAlerts' = nAlerts + 1
         /\ lastAlert' = "Server Error: " \o body.error.s]_vars

C2_Witness ==
  /\ \E i \in 1..Len(predicts) : predicts[i].outcome = "serverError"
  /\ lastAlert = "Server Error: model unavailable"
  /\ shown.id # 0
  /\ shown.body.probability = Num(420)
  /\ donutCenter = "42%"
  /\ lineLabels = <<Str("t1"), Str("t2")>>

\* C3: once a payload is shown, the bars stand in the order of the range
\* table, one per key, each holding the payload's value for its key; a bar
\* is red exactly when its value is below min or above max, and green at
\* min, at max and between.  The keys of the table are the ids of the form.
C3_BarChartFollowsRanges ==
  /\ RangeKeys = ids
  /\ Cardinality(IdSet) = 8
  /\ DOMAIN ranges = IdSet
  /\ shown.id # 0 =>
       LET values == predicts[shown.id].payload IN
       /\ barLabels = RangeKeys
       /\ Len(barData) = Len(RangeKeys)
       /\ Len(barColors) = Len(RangeKeys)
       /\ \A i \in 1..Len(RangeKeys) :
            LET k == RangeKeys[i] IN
            /\ barData[i] = values[k]
            /\ barColors[i] \in {ColorRed, ColorGreen}
            /\ barColors[i] = ColorRed <=> OutOfRange(values[k], ranges[k])
            /\ InRange(values[k], ranges[k]) => barColors[i] = ColorGreen

C3_Witness ==
  /\ shown.id # 0
  /\ \E i \in 1..Len(RangeKeys) :
       barData[i] = Num(ranges[RangeKeys[i]][1]) /\ barColors[i] = ColorGreen
  /\ \E i \in 1..Len(RangeKeys) :
       barData[i] = Num(ranges[RangeKeys[i]][2]) /\ barColors[i] = ColorGreen
  /\ \E i \in 1..Len(RangeKeys) :
       barData[i] = Num(ranges[RangeKeys[i]][1] - 1) /\ barColors[i] = ColorRed
  /\ \E i \in 1..Len(RangeKeys) :
       barData[i] = Num(ranges[RangeKeys[i]][2] + 1) /\ barColors[i] = ColorRed
  /\ \E i \in 1..Len(RangeKeys) : barData[i] = NaN /\ barColors[i] = ColorGreen

\* C4: once the charts exist the donut holds the two slices [100 - p, p] and
\* the center label is p followed by "%", where p is the rounded percent of
\* the probability of the response applied last: 0 before any, 0 when it
\* has none, between 0 and 100 when the probability lies in 0..1; 0.42 gives
\* [58, 42] and "42%".
C4_DonutShowsPercent ==
  loaded =>
    /\ Len(donut) = 2
    /\ donut[1].t = "number" /\ donut[2].t = "number"
    /\ donut[1].n + donut[2].n = 100
    /\ donut[1].n = 100 - donut[2].n
    /\ donutCenter = ToString(donut[2].n) \o "%"
    /\ shown.id = 0 => donut[2].n = 0
    /\ shown.id # 0 =>
         LET probability == shown.body.probability IN
         /\ probability.t = "undefined" => donut[2].n = 0
         /\ probability.t = "number" => NearestPercent(probability.n, donut[2].n)
         /\ (probability.t = "number" /\ probability.n \in 0..1000) =>
              donut[2].n \in 0..100
         /\ probability = Num(420) =>
              donut = <<Num(58), Num(42)>> /\ donutCenter = "42%"

C4_Witness ==
  /\ loaded
  /\ shown.body.probability = Num(420)
  /\ donut = <<Num(58), Num(42)>>
  /\ donutCenter = "42%"
  /\ \E i \in 1..Len(predicts) : i # shown.id /\ predicts[i].outcome = "applied"

\* C5: the line chart's labels and data always have the same length, both
\* empty at first; once a /logs body is applied the labels are the
\* timestamps of its entries in order and the data their rounded percents,
\* and nothing else.
C5_LineChartIsLastLogs ==
  /\ Len(lineLabels) = Len(lineData)
  /\ lineShown.id = 0 => lineLabels = <<>> /\ lineData = <<>>
  /\ lineShown.id # 0 =>
       LET entries == lineShown.logs.entries IN
       /\ Len(lineLabels) = Len(entries)
       /\ \A i \in 1..Len(entries) :
            /\ lineLabels[i] = entries[i].timestamp
            /\ entries[i].probability.t = "number" =>
                 IsRounded(lineData[i], entries[i].probability)
       /\ entries = <<LogEntry(Str("t1"), Num(100)), LogEntry(Str("t2"), Num(500))>> =>
            /\ lineLabels = <<Str("t1"), Str("t2")>>
            /\ lineData = <<Num(10), Num(50)>>

C5_Witness ==
  /\ lineShown.id = 2
  /\ logs[1].outcome = "applied"
  /\ lineLabels = <<Str("t1"), Str("t2")>>
  /\ lineData = <<Num(10), Num(50)>>

Applied == {i \in 1..Len(predicts) : predicts[i].outcome = "applied"}

\* Invocation i of onPredict leaves its second await and updates the charts.
AppliesStep(i) == predicts[i].pc = "json" /\ predicts'[i].outcome = "applied"

LoadStep == ~loaded /\ loaded'

\* C6: GET /logs is issued once by the load listener, the three charts
\* being set, and once by every /predict response that is applied, its
\* donut, texts and bars being set; no other step issues one.  So there are
\* none before the load and 1 + the number of applied predictions after it.
C6_LogsRefreshCount ==
  [][/\ Len(logs') = (IF loaded' THEN 1 ELSE 0) + Cardinality(Applied')
     /\ Len(logs') - Len(logs) =
          IF LoadStep \/ \E i \in 1..Len(predicts) : AppliesStep(i) THEN 1 ELSE 0
     /\ Len(logs') > Len(logs) =>
          /\ SubSeq(logs', 1, Len(logs)) = logs
          /\ logs'[Len(logs')].pc = "fetch"
     /\ LoadStep =>
          /\ donut' = <<Num(100), Num(0)>>
          /\ barLabels' = RangeKeys
          /\ lineLabels' = <<>> /\ lineData' = <<>>
     /\ \A i \in 1..Len(predicts) :
          AppliesStep(i) =>
            /\ shown'.id = i
            /\ errCode' = shown'.body.error_code.s
            /\ barData' = [n \in 1..Len(RangeKeys) |-> predicts[i].payload[RangeKeys[n]]]
     /\ (ClickStep /\ \E k \in IdSet : fields'[k] = <<>>) => logs' = logs
     /\ \A i \in 1..Len(predicts) :
          (predicts[i].pc # "done" /\ predicts'[i].outcome \in {"serverError", "commError"})
            => logs' = logs]_vars

C6_Witness ==
  /\ loaded
  /\ nClicks = 2
  /\ Len(predicts) = 2
  /\ predicts[1].outcome = "serverError"
  /\ predicts[2].outcome = "applied"
  /\ Len(logs) = 2

\* C7: a click that finds every field non-empty issues exactly one POST
\* /predict, whatever the values; no other step issues one.  A request whose
\* fetch rejects or whose body does not parse ends in one alert, is not
\* issued again and leaves the charts as they were.  So there are as many
\* POSTs as clicks that passed validation, and no more than clicks.
C7_OnePostPerValidClick ==
  [][/\ Len(predicts') - Len(predicts) =
          IF ClickStep /\ \A k \in IdSet : fields'[k] # <<>> THEN 1 ELSE 0
     /\ Len(predicts') > Len(predicts) =>
          /\ SubSeq(predicts', 1, Len(predicts)) = predicts
          /\ predicts'[Len(predicts')].pc = "fetch"
     /\ Len(predicts') <= nClicks'
     /\ \A i \in 1..Len(predicts) :
          ((predicts[i].pc = "fetch" /\ predicts'[i].pc = "done")
             \/ \E body \in PredictBodies :
                  PredictParsed(i, body) /\ (~body.parsed \/ body.isNull)) =>
            /\ nAlerts' = nAlerts + 1
            /\ lastAlert' \in CommunicationAlerts
            /\ UNCHANGED charts
            /\ logs' = logs
            /\ \A j \in 1..Len(predicts) :
                 j # i => predicts'[j] = predicts[j]]_vars

C7_Witness ==
  /\ nClicks = 2
  /\ Len(predicts) = 2
  /\ \E k \in IdSet : predicts[1].payload[k] = NaN
  /\ \E k \in IdSet : OutOfRange(predicts[1].payload[k], ranges[k])
  /\ predicts[1].outcome = "commError"
  /\ predicts[2].outcome = "commError"
  /\ lastAlert = "Communication Error: SyntaxError: Unexpected token"
  /\ loaded
  /\ shown.id = 0

\* C8: a GET /logs whose fetch rejects, whose body does not parse, or whose
\* body is no list of entries leaves the line chart's labels and data both
\* as they were, raises no alert, writes one line to the console, issues no
\* request, and leaves the donut and the bar chart alone.
C8_LogsFailureIsSilent ==
  [][\A j \in 1..Len(logs) :
       ((logs[j].pc = "fetch" /\ logs'[j].pc = "done")
          \/ \E body \in LogsBodies :
               /\ LogsParsed(j, body)
               /\ \/ ~body.parsed
                  \/ ~body.isArray
                  \/ \E n \in 1..Len(body.entries) : body.entries[n].isNull) =>
         /\ UNCHANGED charts
         /\ UNCHANGED <<nAlerts, lastAlert>>
         /\ nConsole' = nConsole + 1
         /\ Len(logs') = Len(logs)
         /\ predicts' = predicts]_vars

C8_Witness ==
  /\ \E j \in 1..Len(logs) : j > lineShown.id /\ logs[j].outcome = "failed"
  /\ lineShown.id # 0
  /\ lineLabels = <<Str("t1"), Str("t2")>>
  /\ lineData = <<Num(10), Num(50)>>
  /\ nConsole = 1
  /\ nAlerts = 0

\* C9: a valid click issues its POST also while earlier requests are in
\* flight and leaves those untouched; every /predict body without error is
\* applied when it arrives, whichever request it answers, and then the
\* donut, the texts and the bars are those of that exchange; every /logs
\* list is applied when it arrives and then is the line chart.
C9_LastArrivalWins ==
  [][/\ (ClickStep /\ \A k \in IdSet : fields'[k] # <<>>) =>
          /\ Len(predicts') = Len(predicts) + 1
          /\ SubSeq(predicts', 1, Len(predicts)) = predicts
          /\ predicts'[Len(predicts')].pc = "fetch"
     /\ \A i \in 1..Len(predicts), body \in PredictBodies :
          (PredictParsed(i, body) /\ loaded /\ body.parsed /\ ~body.isNull
             /\ ~(body.error.t = "string" /\ body.error.s # "")) =>
            /\ shown' = [id |-> i, body |-> body]
            /\ donutCenter' = ToString(donut'[2].n) \o "%"
            /\ body.probability.t = "number" =>
                 NearestPercent(body.probability.n, donut'[2].n)
            /\ errCode' = body.error_code.s
            /\ errDesc' = body.error_description.s
            /\ barData' = [n \in 1..Len(RangeKeys) |-> predicts[i].payload[RangeKeys[n]]]
     /\ \A j \in 1..Len(logs), body \in LogsBodies :
          (LogsParsed(j, body) /\ body.parsed /\ body.isArray
             /\ \A n \in 1..Len(body.entries) : ~body.entries[n].isNull) =>
            /\ lineShown' = [id |-> j, logs |-> body]
            /\ lineLabels' = [n \in 1..Len(body.entries) |-> body.entries[n].timestamp]]_vars

\* Both requests are done and the charts show the earlier submission; the
\* line chart shows the list of the earlier of two applied GET /logs.
C9_Witness ==
  /\ Len(predicts) = 2
  /\ predicts[1].outcome = "applied"
  /\ predicts[2].outcome = "applied"
  /\ predicts[1].payload # predicts[2].payload
  /\ shown.id = 1
  /\ barData = [n \in 1..Len(RangeKeys) |-> predicts[1].payload[RangeKeys[n]]]
  /\ errCode = shown.body.error_code.s
  /\ lineShown.id = 1
  /\ logs[2].outcome = "applied"
  /\ lineLabels = [n \in 1..Len(lineShown.logs.entries) |-> lineShown.logs.entries[n].timestamp]
  /\ lineLabels # <<>>

\* C10: the donut, its center label, the error texts and the bars are at
\* their first values, or are all those of one /predict exchange: the body
\* of one response and the payload sent by the request it answers.
C10_NoTornDisplay ==
  IF shown.id = 0
  THEN /\ errCode = MarkupText
       /\ errDesc = MarkupText
       /\ IF loaded
          THEN /\ donut = <<Num(100), Num(0)>>
               /\ donutCenter = "0%"
               /\ barData = [n \in 1..Len(RangeKeys) |-> Num(0)]
               /\ barColors = [n \in 1..Len(RangeKeys) |-> ColorGreen]
          ELSE /\ donut = <<>>
               /\ donutCenter = MarkupText
               /\ barData = <<>>
               /\ barColors = <<>>
  ELSE LET body == shown.body
           sent == predicts[shown.id].payload
       IN
       /\ predicts[shown.id].outcome = "applied"
       /\ donut[1].n = 100 - donut[2].n
       /\ IF body.probability.t = "number"
          THEN NearestPercent(body.probability.n, donut[2].n)
          ELSE donut[2].n = 0
       /\ donutCenter = ToString(donut[2].n) \o "%"
       /\ errCode = body.error_code.s
       /\ errDesc = body.error_description.s
       /\ \A n \in 1..Len(RangeKeys) :
            /\ barData[n] = sent[RangeKeys[n]]
            /\ barColors[n] =
                 IF OutOfRange(sent[RangeKeys[n]], ranges[RangeKeys[n]])
                 THEN ColorRed ELSE ColorGreen

\* Two exchanges were applied, the later submission first, and the display
\* is wholly the earlier one's.
C10_Witness ==
  /\ Len(predicts) = 2
  /\ predicts[1].outcome = "applied"
  /\ predicts[2].outcome = "applied"
  /\ predicts[1].payload # predicts[2].payload
  /\ shown.id = 1
  /\ shown.body.probability = Num(5)
  /\ donut = <<Num(99), Num(1)>>
  /\ donutCenter = "1%"
  /\ errCode = "E3"
  /\ errDesc = "Leak"
  /\ barData = [n \in 1..Len(RangeKeys) |-> predicts[1].payload[RangeKeys[n]]]

====
